---- MODULE Spec2Model ----
(***************************************************************************)
(* Model of claw-log's OAuth 2.0 PKCE login flow (src/oauth.py):           *)
(* the token store (save_tokens / load_tokens), the token exchange         *)
(* (_exchange_token), the refresh (refresh_if_needed), PKCE                *)
(* (_generate_pkce), the one-shot callback listener                        *)
(* (_OAuthCallbackHandler served by HTTPServer.handle_request on a         *)
(* daemon thread) and the orchestrator run_oauth_login.                    *)
(*                                                                         *)
(* Spec      : a process that calls run_oauth_login up to MaxAttempts      *)
(*             times, with the server threads of its attempts, the token   *)
(*             endpoint, the file system and the clock as environment.     *)
(* SpecStore : a process that calls save_tokens and load_tokens while      *)
(*             another party removes, truncates or overwrites the file.    *)
(* SpecRefresh : the holder of a stored credential, which loads it and     *)
(*             calls refresh_if_needed on what it holds.                   *)
(* SpecSession : one run of the program: one run_oauth_login, then         *)
(*             refresh_if_needed on the record it returned.                *)
(* SpecSessionFair : SpecSession with the calling thread running and time  *)
(*             passing, for termination.                                   *)
(***************************************************************************)
EXTENDS Integers, Sequences, FiniteSets, TLC

(***************************************************************************)
(* Bounds of the model.                                                    *)
(***************************************************************************)
\* number of run_oauth_login invocations the calling process makes
MaxAttempts == 2
\* number of clock advances (each of TickLen seconds)
MaxTicks == 1
\* number of times another party changes the token file
MaxTamper == 1

(***************************************************************************)
(* Program constants.                                                      *)
(***************************************************************************)
\* server_thread.join(timeout=120)
JOIN_TIMEOUT == 120
CALLBACK_PATH == "/auth/callback"
\* time.time() + 300 < expires_at
REFRESH_MARGIN == 300

\* one clock advance, in seconds: the join budget, so that a wait is
\* observed before (0 s) and at (120 s) its expiry
TickLen == JOIN_TIMEOUT

(***************************************************************************)
(* Python / JSON values.  Every scalar has the same record shape so that   *)
(* values of different Python types can be compared.                       *)
(***************************************************************************)
PyStr(s) == [ty |-> "str", s |-> s, n |-> 0]
PyInt(n) == [ty |-> "int", s |-> "", n |-> n]
PyNone == [ty |-> "null", s |-> "", n |-> 0]

\* a dict with no key
EmptyObj == [k \in {} |-> PyNone]

\* A parsed JSON document (what json.load / json.loads return): a dict, a
\* list (only the strings it holds matter to the `in` tests), a number or
\* null.  Python's None is JNull.
JObj(f) == [kind |-> "object", obj |-> f, items |-> {}]
JArr(S) == [kind |-> "array", obj |-> EmptyObj, items |-> S]
JNum == [kind |-> "number", obj |-> EmptyObj, items |-> {}]
JNull == [kind |-> "null", obj |-> EmptyObj, items |-> {}]

\* Python's `key in value`; TypeError for None and for a number
InRaises(v) == v.kind \in {"null", "number"}
In(key, v) ==
    CASE v.kind = "object" -> key \in DOMAIN v.obj
      [] v.kind = "array" -> key \in v.items
      [] OTHER -> FALSE

\* Python's truthiness of a parsed document (the number is non-zero)
Truthy(v) ==
    CASE v.kind = "object" -> DOMAIN v.obj # {}
      [] v.kind = "array" -> v.items # {}
      [] v.kind = "number" -> TRUE
      [] OTHER -> FALSE

\* Python's truthiness of a scalar: None, "" and 0 are false
ScalarTruthy(v) ==
    CASE v.ty = "str" -> v.s # ""
      [] v.ty = "int" -> v.n # 0
      [] OTHER -> FALSE

\* dict.get(key, default)
Get(f, k, d) == IF k \in DOMAIN f THEN f[k] ELSE d

(***************************************************************************)
(* The token file.  Its text is a sequence of lexemes; json.dump writes    *)
(* them and json.load reads them back.                                     *)
(***************************************************************************)
Lex(t, k, v) == [tok |-> t, key |-> k, val |-> v]
LBrace == Lex("{", "", PyNone)
RBrace == Lex("}", "", PyNone)
LBrack == Lex("[", "", PyNone)
RBrack == Lex("]", "", PyNone)
NullLex == Lex("null", "", PyNone)
NumLex == Lex("num", "", PyNone)
Pair(k, v) == Lex("pair", k, v)

\* the keys of a TokenRecord, in the order json.dump writes them here
KeyOrder == <<"access_token", "refresh_token", "expires_in", "expires_at", "saved_at">>

RECURSIVE DumpPairs(_, _)
DumpPairs(rec, i) ==
    IF i > Len(KeyOrder) THEN <<>>
    ELSE (IF KeyOrder[i] \in DOMAIN rec
          THEN <<Pair(KeyOrder[i], rec[KeyOrder[i]])>>
          ELSE <<>>) \o DumpPairs(rec, i + 1)

\* json.dump(tokens, f, indent=2) of a dict
Dump(rec) == <<LBrace>> \o DumpPairs(rec, 1) \o <<RBrace>>

IsObjectText(text) ==
    /\ Len(text) >= 2
    /\ text[1] = LBrace
    /\ text[Len(text)] = RBrace
    /\ \A i \in 2..(Len(text) - 1) : text[i].tok = "pair"

\* the dict an object text denotes (a repeated key keeps its last value)
ObjectOf(text) ==
    LET idx == 2..(Len(text) - 1)
        keys == {text[i].key : i \in idx}
        last(k) == CHOOSE i \in idx :
                      /\ text[i].key = k
                      /\ \A j \in idx : text[j].key = k => j <= i
    IN [k \in keys |-> text[last(k)].val]

\* json.load: does the text parse, and to what
Parses(text) ==
    \/ IsObjectText(text)
    \/ text = <<NullLex>>
    \/ text = <<NumLex>>
    \/ text = <<LBrack, RBrack>>

Parse(text) ==
    CASE IsObjectText(text) -> JObj(ObjectOf(text))
      [] text = <<NullLex>> -> JNull
      [] text = <<NumLex>> -> JNum
      [] OTHER -> JArr({})

\* the file: present or not, readable by this user or not, its bytes valid
\* UTF-8 or not, its text, and whether it is restricted to the owner (0o600)
FileOf(text) == [exists |-> TRUE, readable |-> TRUE, utf8 |-> TRUE,
                 text |-> text, ownerOnly |-> FALSE]
Absent == [exists |-> FALSE, readable |-> TRUE, utf8 |-> TRUE,
           text |-> <<>>, ownerOnly |-> FALSE]

(***************************************************************************)
(* _exchange_token: one POST to the token endpoint.                        *)
(***************************************************************************)
\* what the provider (or the network) can answer
RespKeys == {"access_token", "refresh_token", "expires_in", "expires_at"}
ValsOf(k) ==
    CASE k = "access_token" -> {PyStr("AT1")}
      [] k = "refresh_token" -> {PyStr("RT1")}
      [] k = "expires_in" -> {PyInt(3600), PyStr("3600")}
      [] OTHER -> {PyInt(99)}
AllVals == UNION {ValsOf(k) : k \in RespKeys}
ObjBodies ==
    {f \in UNION {[S -> AllVals] : S \in SUBSET RespKeys} :
        \A k \in DOMAIN f : f[k] \in ValsOf(k)}
Bodies ==
    {JObj(f) : f \in ObjBodies}
        \cup {JNull, JNum, JArr({}), JArr({"access_token"}), JArr({"expires_in"})}

\* status: a 2xx answer, an HTTP error status, or no answer at all (URLError);
\* valid: the body of a 2xx answer is UTF-8 JSON text
Response(st, ok, b) == [status |-> st, valid |-> ok, body |-> b]
Responses ==
    {Response("2xx", TRUE, b) : b \in Bodies}
        \cup {Response("2xx", FALSE, JNull),
              Response("non2xx", TRUE, JNull),
              Response("unreachable", TRUE, JNull)}

\* the provider accepts the connection and never answers
Silence == Response("no_answer", TRUE, JNull)

\* d[k] = v on a dict
SetKey(f, k, v) == [x \in (DOMAIN f) \cup {k} |-> IF x = k THEN v ELSE f[x]]

Returned(v) == [how |-> "return", val |-> v]
Raised == [how |-> "raise", val |-> JNull]

\* the result of _exchange_token when the endpoint answers resp at time t
ExchangeToken(resp, t) ==
    CASE resp.status = "unreachable" -> Raised
      [] resp.status = "non2xx" -> Returned(JNull)
      [] ~resp.valid -> Raised
      [] InRaises(resp.body) -> Raised
      [] ~In("expires_in", resp.body) -> Returned(resp.body)
      [] resp.body.kind # "object" -> Raised
      [] resp.body.obj["expires_in"].ty # "int" -> Raised
      [] OTHER ->
           Returned(JObj(SetKey(resp.body.obj, "expires_at",
                                PyInt(t + resp.body.obj["expires_in"].n))))

(***************************************************************************)
(* save_tokens / load_tokens.                                              *)
(***************************************************************************)
\* what the file system does to one save: mkdir fails, open fails, the
\* write fails after the file was truncated, or all succeed
FsOutcomes == {"ok", "mkdir_fails", "open_fails", "write_fails"}

\* save_tokens stamping and writing a copy: the caller's dict is not mutated
SaveTokensCopy(tokens, f, t, fs, chmodOk) ==
    LET stamped == JObj(SetKey(tokens.obj, "saved_at", PyInt(t)))
        mode == IF chmodOk THEN TRUE ELSE (f.exists /\ f.ownerOnly)
    IN CASE fs = "mkdir_fails" ->
              [how |-> "raise", file |-> f, tokens |-> tokens]
         [] tokens.kind # "object" ->
              [how |-> "raise", file |-> f, tokens |-> tokens]
         [] fs = "open_fails" \/ (f.exists /\ ~f.readable) ->
              [how |-> "raise", file |-> f, tokens |-> tokens]
         [] fs = "write_fails" ->
              [how |-> "raise",
               file |-> [FileOf(<<>>) EXCEPT !.ownerOnly = f.exists /\ f.ownerOnly],
               tokens |-> tokens]
         [] OTHER ->
              [how |-> "return",
               file |-> [FileOf(Dump(stamped.obj)) EXCEPT !.ownerOnly = mode],
               tokens |-> tokens]

\* save_tokens keeping a saved_at the record already has
\* (tokens.setdefault("saved_at", ...))
SaveTokensKeepStamp(tokens, f, t, fs, chmodOk) ==
    LET stamped == IF tokens.kind = "object" /\ "saved_at" \in DOMAIN tokens.obj
                   THEN tokens
                   ELSE JObj(SetKey(tokens.obj, "saved_at", PyInt(t)))
        mode == IF chmodOk THEN TRUE ELSE (f.exists /\ f.ownerOnly)
    IN CASE fs = "mkdir_fails" ->
              [how |-> "raise", file |-> f, tokens |-> tokens]
         [] tokens.kind # "object" ->
              [how |-> "raise", file |-> f, tokens |-> tokens]
         [] fs = "open_fails" \/ (f.exists /\ ~f.readable) ->
              [how |-> "raise", file |-> f, tokens |-> stamped]
         [] fs = "write_fails" ->
              [how |-> "raise",
               file |-> [FileOf(<<>>) EXCEPT !.ownerOnly = f.exists /\ f.ownerOnly],
               tokens |-> stamped]
         [] OTHER ->
              [how |-> "return",
               file |-> [FileOf(Dump(stamped.obj)) EXCEPT !.ownerOnly = mode],
               tokens |-> stamped]

\* save_tokens without the try/except of lines 106-109: a rejected chmod
\* raises after the record was written
SaveTokensChmodFatal(tokens, f, t, fs, chmodOk) ==
    LET stamped == JObj(SetKey(tokens.obj, "saved_at", PyInt(t)))
    IN CASE fs = "mkdir_fails" ->
              [how |-> "raise", file |-> f, tokens |-> tokens]
         [] tokens.kind # "object" ->
              [how |-> "raise", file |-> f, tokens |-> tokens]
         [] fs = "open_fails" \/ (f.exists /\ ~f.readable) ->
              [how |-> "raise", file |-> f, tokens |-> stamped]
         [] fs = "write_fails" ->
              [how |-> "raise",
               file |-> [FileOf(<<>>) EXCEPT !.ownerOnly = f.exists /\ f.ownerOnly],
               tokens |-> stamped]
         [] ~chmodOk ->
              [how |-> "raise",
               file |-> [FileOf(Dump(stamped.obj))
                           EXCEPT !.ownerOnly = f.exists /\ f.ownerOnly],
               tokens |-> stamped]
         [] OTHER ->
              [how |-> "return",
               file |-> [FileOf(Dump(stamped.obj)) EXCEPT !.ownerOnly = TRUE],
               tokens |-> stamped]

\* lines 101-104 went through, so that os.chmod (line 107) is called
ChmodReached(tokens, f, fs) ==
    /\ fs = "ok"
    /\ tokens.kind = "object"
    /\ ~(f.exists /\ ~f.readable)

\* save_tokens(tokens) at time t: how it ends, the file it leaves and the
\* (mutated) tokens
SaveTokens(tokens, f, t, fs, chmodOk) ==
    LET stamped == JObj(SetKey(tokens.obj, "saved_at", PyInt(t)))
        mode == IF chmodOk THEN TRUE ELSE (f.exists /\ f.ownerOnly)
    IN CASE fs = "mkdir_fails" ->
              [how |-> "raise", file |-> f, tokens |-> tokens]
         [] tokens.kind # "object" ->
              [how |-> "raise", file |-> f, tokens |-> tokens]
         [] fs = "open_fails" \/ (f.exists /\ ~f.readable) ->
              [how |-> "raise", file |-> f, tokens |-> stamped]
         [] fs = "write_fails" ->
              [how |-> "raise",
               file |-> [FileOf(<<>>) EXCEPT !.ownerOnly = f.exists /\ f.ownerOnly],
               tokens |-> stamped]
         [] OTHER ->
              [how |-> "return",
               file |-> [FileOf(Dump(stamped.obj)) EXCEPT !.ownerOnly = mode],
               tokens |-> stamped]

\* lines 116-120 of load_tokens, once TOKEN_FILE.exists() was true
LoadOpen(f) ==
    CASE ~f.exists -> Returned(JNull)
      [] ~f.readable -> Returned(JNull)
      [] ~f.utf8 -> Raised
      [] ~Parses(f.text) -> Returned(JNull)
      [] OTHER -> Returned(Parse(f.text))

\* load_tokens on a file nobody touches meanwhile
LoadTokens(f) == IF ~f.exists THEN Returned(JNull) ELSE LoadOpen(f)

(***************************************************************************)
(* refresh_if_needed.                                                      *)
(***************************************************************************)
\* the validity test with <= in place of <
RefreshDecisionInclusive(tokens, t) ==
    CASE tokens.kind # "object" -> "raise"
      [] Get(tokens.obj, "expires_at", PyInt(0)).ty # "int" -> "raise"
      [] t + REFRESH_MARGIN <= Get(tokens.obj, "expires_at", PyInt(0)).n -> "valid"
      [] ~ScalarTruthy(Get(tokens.obj, "refresh_token", PyNone)) -> "no_refresh_token"
      [] OTHER -> "refresh"

\* without the test of lines 130-132
RefreshDecisionNoTokenCheck(tokens, t) ==
    CASE tokens.kind # "object" -> "raise"
      [] Get(tokens.obj, "expires_at", PyInt(0)).ty # "int" -> "raise"
      [] t + REFRESH_MARGIN < Get(tokens.obj, "expires_at", PyInt(0)).n -> "valid"
      [] OTHER -> "refresh"

\* lines 125-134, called with tokens at time t: tokens.get raises
\* AttributeError on a value that is no dict, the comparison raises TypeError
\* on an expires_at that is no number; else the record is still valid, or
\* has no refresh token, or is to be refreshed
RefreshDecision(tokens, t) ==
    CASE tokens.kind # "object" -> "raise"
      [] Get(tokens.obj, "expires_at", PyInt(0)).ty # "int" -> "raise"
      [] t + REFRESH_MARGIN < Get(tokens.obj, "expires_at", PyInt(0)).n -> "valid"
      [] ~ScalarTruthy(Get(tokens.obj, "refresh_token", PyNone)) -> "no_refresh_token"
      [] OTHER -> "refresh"

\* what the token endpoint can answer to a refresh: as to a login, and a
\* 2xx object whose refresh_token is null or empty
RefreshResponses ==
    Responses
      \cup {Response("2xx", TRUE,
                     JObj([k \in {"access_token", "refresh_token"} |->
                             IF k = "access_token" THEN PyStr("AT1") ELSE v])) :
               v \in {PyNone, PyStr("")}}

\* lines 135-151 once the endpoint answered resp at time t: what is logged,
\* what is returned and the file that is left.  Everything raised inside
\* the try is caught by `except Exception` (line 148).
RefreshOutcome(lg, v, f) == [log |-> lg, val |-> v, file |-> f]

\* without lines 143-144: the answer is saved as it came
RefreshResultNoCarry(tokens, resp, f, t, fs, chmodOk) ==
    LET out == ExchangeToken(resp, t)
        saved == SaveTokens(out.val, f, t, fs, chmodOk)
    IN CASE out.how = "raise" -> RefreshOutcome("refresh_failed", tokens, f)
         [] ~Truthy(out.val) -> RefreshOutcome("no_tokens", tokens, f)
         [] out.val.kind # "object" -> RefreshOutcome("refresh_failed", tokens, f)
         [] saved.how = "raise" -> RefreshOutcome("refresh_failed", tokens, saved.file)
         [] OTHER -> RefreshOutcome("refreshed", saved.tokens, saved.file)

RefreshResult(tokens, resp, f, t, fs, chmodOk) ==
    LET out == ExchangeToken(resp, t)
        refresh_token == Get(tokens.obj, "refresh_token", PyNone)
        new_tokens ==
            IF "refresh_token" \in DOMAIN out.val.obj
            THEN out.val
            ELSE JObj(SetKey(out.val.obj, "refresh_token", refresh_token))
        saved == SaveTokens(new_tokens, f, t, fs, chmodOk)
    IN CASE out.how = "raise" -> RefreshOutcome("refresh_failed", tokens, f)
         [] ~Truthy(out.val) -> RefreshOutcome("no_tokens", tokens, f)
         \* a list: line 144 or line 102 raises TypeError
         [] out.val.kind # "object" -> RefreshOutcome("refresh_failed", tokens, f)
         [] saved.how = "raise" -> RefreshOutcome("refresh_failed", tokens, saved.file)
         [] OTHER -> RefreshOutcome("refreshed", saved.tokens, saved.file)

(***************************************************************************)
(* State.                                                                  *)
(***************************************************************************)
VARIABLES
    pc,                 \* where the calling (main) thread is
    attempt,            \* run_oauth_login invocations so far; the current one
    verifier,           \* local of run_oauth_login (line 189)
    state,              \* local of run_oauth_login (line 190)
    code,               \* local of run_oauth_login (line 232)
    received,           \* local received_state of run_oauth_login (line 233)
    tokens,             \* local of run_oauth_login (line 245)
    authorization_code, \* _OAuthCallbackHandler.authorization_code (class field)
    received_state,     \* _OAuthCallbackHandler.received_state (class field)
    sock,               \* per attempt: the listening socket of its HTTPServer
    thr,                \* per attempt: where its server thread is
    req,                \* per attempt: the request its server thread accepted
    file,               \* TOKEN_FILE
    ticks,              \* the clock, in advances of TickLen seconds
    joinStart,          \* the clock when server_thread.join was entered
    tampers,            \* changes made to the token file by another party
    ret,                \* how the last call of the caller ended
    log,                \* history: what the current call has done, in order
    fileAtStart,        \* history: the token file when the current call began
    expiry,             \* history: how the 120-second wait of the attempt expired
    fileRead,           \* history: the token file as load_tokens' open found it
    posts,              \* history: the POSTs of the current call
    auth_url,           \* local of run_oauth_login (line 204), as its parameters
    response,           \* history: the last answer a listener sent in this call
    handled             \* history: the request each listener took in this call

vars == <<pc, attempt, verifier, state, code, received, tokens,
          authorization_code, received_state, sock, thr, req, file, ticks,
          joinStart, tampers, ret, log, fileAtStart, expiry, fileRead, posts,
          auth_url, response, handled>>

Attempts == 1..MaxAttempts
now == ticks * TickLen

\* Python's None in a slot that otherwise holds a string
None == <<"None", 0>>

\* secrets.token_urlsafe: a value never produced before in this process
Nonce(prefix, a) == <<prefix, a>>
\* _generate_state() and the verifier of _generate_pkce() in attempt a
GenerateState(a) == Nonce("state", a)
GenerateVerifier(a) == Nonce("verifier", a)

\* the GET requests that can reach the listener of attempt a (an
\* authorization code is single-use: the request to attempt a's listener
\* carries a code no other request carries): the provider's redirect with
\* the code and the attempt's state, a forged one with another state, a
\* redirect without code (error=access_denied), and a request to another path
Request(p, c, s) == [path |-> p, code |-> c, state |-> s]
NoRequest == Request("", None, None)
Requests(a) ==
    {Request(CALLBACK_PATH, Nonce("code", a), GenerateState(a)),
     Request(CALLBACK_PATH, Nonce("code", a), Nonce("state", 0)),
     Request(CALLBACK_PATH, None, GenerateState(a)),
     Request("/favicon.ico", Nonce("code", a), GenerateState(a))}

\* the token file when the process starts: none, or the record an earlier
\* run of the program stored
PriorRecord ==
    [k \in {"access_token", "refresh_token", "saved_at"} |->
        CASE k = "access_token" -> PyStr("AT0")
          [] k = "refresh_token" -> PyStr("RT0")
          [] OTHER -> PyInt(0)]
InitialFiles == {Absent, [FileOf(Dump(PriorRecord)) EXCEPT !.ownerOnly = TRUE]}

\* _generate_pkce, lines 38-48.  A digest and its encodings are kept as
\* terms: sha256 of the verifier's bytes, urlsafe_b64encode of the 32-byte
\* digest (44 characters, the last one "="), rstrip(b"=").
Sha256(v) == <<"sha256", v>>
Hex(d) == [alphabet |-> "hex", data |-> d, padding |-> 0]
UrlsafeB64encode(d) == [alphabet |-> "urlsafe_b64", data |-> d, padding |-> 1]
RstripPadding(b) == [b EXCEPT !.padding = 0]

\* _generate_pkce returning the value of line 43
GeneratePkceHex(a) ==
    LET digest == Sha256(GenerateVerifier(a))
    IN [verifier |-> GenerateVerifier(a), challenge |-> Hex(digest)]

GeneratePkce(a) ==
    LET digest == Sha256(GenerateVerifier(a))
    IN [verifier |-> GenerateVerifier(a),
        challenge |-> RstripPadding(UrlsafeB64encode(digest))]

\* lines 193-204: the parameters of the authorization URL that vary
AuthUrl(st, ch) ==
    [state |-> st, code_challenge |-> ch, code_challenge_method |-> "S256"]
NoUrl == AuthUrl(None, Hex(None))

\* the answer of listener a to a request for path p
Reply(a, p, st) == [by |-> a, path |-> p, status |-> st]
NoReply == Reply(0, "", 0)

NoRet == [op |-> "none", how |-> "return", val |-> JNull]
Ret(op, how, v) == [op |-> op, how |-> how, val |-> v]

Init ==
    /\ pc = "idle"
    /\ attempt = 0
    /\ verifier = None
    /\ state = None
    /\ code = None
    /\ received = None
    /\ tokens = JNull
    /\ authorization_code = None
    /\ received_state = None
    /\ sock = [a \in Attempts |-> "none"]
    /\ thr = [a \in Attempts |-> "none"]
    /\ req = [a \in Attempts |-> NoRequest]
    /\ file \in InitialFiles
    /\ ticks = 0
    /\ joinStart = 0
    /\ tampers = 0
    /\ ret = NoRet
    /\ log = <<>>
    /\ fileAtStart = file
    /\ expiry = "none"
    /\ fileRead = file
    /\ posts = <<>>
    /\ auth_url = NoUrl
    /\ response = NoReply
    /\ handled = [a \in Attempts |-> NoRequest]

(***************************************************************************)
(* run_oauth_login, step by step (the calling thread).                     *)
(***************************************************************************)
\* leave the current call: back in the caller with value v, or an
\* exception that nothing catches (src/main.py:330 has no handler)
ReturnToCaller(op, v) ==
    /\ pc' = "idle"
    /\ ret' = Ret(op, "return", v)
Escape(op) ==
    /\ pc' = "crashed"
    /\ ret' = Ret(op, "raise", JNull)

\* lines 189-204: verifier, challenge, state, authorization URL
LoginBegin ==
    /\ pc = "idle"
    /\ attempt < MaxAttempts
    /\ attempt' = attempt + 1
    /\ verifier' = GeneratePkce(attempt + 1).verifier
    /\ state' = GenerateState(attempt + 1)
    /\ code' = None
    /\ received' = None
    /\ tokens' = JNull
    /\ pc' = "reset_code"
    /\ ret' = NoRet
    /\ log' = <<>>
    /\ fileAtStart' = file
    /\ expiry' = "none"
    /\ fileRead' = fileRead
    /\ posts' = <<>>
    /\ auth_url' = AuthUrl(GenerateState(attempt + 1),
                           GeneratePkce(attempt + 1).challenge)
    /\ response' = NoReply
    /\ handled' = [a \in Attempts |-> NoRequest]
    /\ UNCHANGED <<authorization_code, received_state, sock, thr, req, file,
                   ticks, joinStart, tampers>>

\* line 207
ResetCode ==
    /\ pc = "reset_code"
    /\ authorization_code' = None
    /\ pc' = "reset_state"
    /\ UNCHANGED <<handled, auth_url, response, attempt, verifier, state, code, received, tokens, received_state,
                   sock, thr, req, file, ticks, joinStart, tampers, ret, log,
                   fileAtStart, expiry, fileRead, posts>>

\* line 208
ResetState ==
    /\ pc = "reset_state"
    /\ received_state' = None
    /\ pc' = "bind"
    /\ UNCHANGED <<handled, auth_url, response, attempt, verifier, state, code, received, tokens, authorization_code,
                   sock, thr, req, file, ticks, joinStart, tampers, ret, log,
                   fileAtStart, expiry, fileRead, posts>>

\* the port cannot be bound: a socket of this process still listens on it,
\* or another process does (foreign)
PortInUse(foreign) == foreign \/ \E a \in Attempts : sock[a] = "open"

\* lines 210-215 without the return of line 215
BindIgnoringFailure ==
    /\ pc = "bind"
    /\ \E foreign \in BOOLEAN :
         IF PortInUse(foreign)
         THEN /\ log' = Append(log, "port_in_use")
              /\ sock' = sock
         ELSE /\ sock' = [sock EXCEPT ![attempt] = "open"]
              /\ log' = Append(log, "bound")
    /\ pc' = "start_thread"
    /\ UNCHANGED <<handled, auth_url, response, attempt, verifier, state, code, received, tokens,
                   authorization_code, received_state, thr, req, file, ticks,
                   joinStart, tampers, ret, fileAtStart, expiry, fileRead,
                   posts>>

\* lines 210-215: HTTPServer(("localhost", CALLBACK_PORT), ...) binds and
\* listens; OSError ends the attempt
Bind ==
    /\ pc = "bind"
    /\ \E foreign \in BOOLEAN :
         IF PortInUse(foreign)
         THEN /\ ReturnToCaller("login", JNull)
              /\ log' = Append(log, "port_in_use")
              /\ sock' = sock
         ELSE /\ sock' = [sock EXCEPT ![attempt] = "open"]
              /\ log' = Append(log, "bound")
              /\ pc' = "start_thread"
              /\ ret' = ret
    /\ UNCHANGED <<handled, auth_url, response, attempt, verifier, state, code, received, tokens, authorization_code,
                   received_state, thr, req, file, ticks, joinStart, tampers,
                   fileAtStart, expiry, fileRead, posts>>

\* lines 218-219: Thread(target=server.handle_request).start(); start()
\* raises RuntimeError when no thread can be created
StartThread ==
    /\ pc = "start_thread"
    /\ \E started \in BOOLEAN :
         IF started
         THEN /\ thr' = [thr EXCEPT ![attempt] = "waiting"]
              /\ log' = Append(log, "thread")
              /\ pc' = "open_browser"
              /\ ret' = ret
         ELSE /\ Escape("login")
              /\ UNCHANGED <<handled, auth_url, response, thr, log>>
    /\ UNCHANGED <<handled, auth_url, response, attempt, verifier, state, code, received, tokens, authorization_code,
                   received_state, sock, req, file, ticks, joinStart, tampers,
                   fileAtStart, expiry, fileRead, posts>>

\* lines 222-228: the prints and webbrowser.open(auth_url); a print raises
\* (OSError on a closed stdout, UnicodeEncodeError on a console that cannot
\* encode the emoji)
OpenBrowser ==
    /\ pc = "open_browser"
    /\ \E printed \in BOOLEAN :
         IF printed
         THEN /\ log' = Append(log, "browser")
              /\ joinStart' = ticks
              /\ pc' = "join"
              /\ ret' = ret
         ELSE /\ Escape("login")
              /\ UNCHANGED <<handled, auth_url, response, log, joinStart>>
    /\ UNCHANGED <<handled, auth_url, response, attempt, verifier, state, code, received, tokens, authorization_code,
                   received_state, sock, thr, req, file, ticks, tampers,
                   fileAtStart, expiry, fileRead, posts>>

\* line 229: server_thread.join(timeout=120) returns when the thread has
\* ended, or when 120 seconds have passed
Join ==
    /\ pc = "join"
    /\ \/ /\ thr[attempt] = "done"
          /\ log' = Append(log, "joined")
          /\ expiry' = expiry
       \/ /\ thr[attempt] # "done"
          /\ now - joinStart * TickLen >= JOIN_TIMEOUT
          /\ log' = Append(log, "timeout")
          /\ expiry' = IF thr[attempt] = "waiting" THEN "no_request" ELSE "in_flight"
    /\ pc' = "server_close"
    /\ UNCHANGED <<handled, auth_url, response, attempt, verifier, state, code, received, tokens, authorization_code,
                   received_state, sock, thr, req, file, ticks, joinStart,
                   tampers, ret, fileAtStart, fileRead, posts>>

\* line 230: server.server_close()
ServerClose ==
    /\ pc = "server_close"
    /\ sock' = [sock EXCEPT ![attempt] = "closed"]
    /\ log' = Append(log, "closed")
    /\ pc' = "read_code"
    /\ UNCHANGED <<handled, auth_url, response, attempt, verifier, state, code, received, tokens, authorization_code,
                   received_state, thr, req, file, ticks, joinStart, tampers,
                   ret, fileAtStart, expiry, fileRead, posts>>

\* line 232
ReadCode ==
    /\ pc = "read_code"
    /\ code' = authorization_code
    /\ pc' = "read_state"
    /\ UNCHANGED <<handled, auth_url, response, attempt, verifier, state, received, tokens, authorization_code,
                   received_state, sock, thr, req, file, ticks, joinStart,
                   tampers, ret, log, fileAtStart, expiry, fileRead, posts>>

\* lines 233-241 without the comparison of line 239
ReadStateNoStateCheck ==
    /\ pc = "read_state"
    /\ received' = received_state
    /\ IF code = None
       THEN /\ ReturnToCaller("login", JNull)
            /\ log' = Append(log, "no_code")
       ELSE /\ pc' = "exchange"
            /\ ret' = ret
            /\ log' = log \o <<"code", "state_ok">>
    /\ UNCHANGED <<handled, auth_url, response, attempt, verifier, state, code, tokens, authorization_code,
                   received_state, sock, thr, req, file, ticks, joinStart,
                   tampers, fileAtStart, expiry, fileRead, posts>>

\* lines 233-241: read the state, then the two checks
ReadState ==
    /\ pc = "read_state"
    /\ received' = received_state
    /\ IF code = None
       THEN /\ ReturnToCaller("login", JNull)
            /\ log' = Append(log, "no_code")
       ELSE IF received_state # state
       THEN /\ ReturnToCaller("login", JNull)
            /\ log' = log \o <<"code", "state_mismatch">>
       ELSE /\ pc' = "exchange"
            /\ ret' = ret
            /\ log' = log \o <<"code", "state_ok">>
    /\ UNCHANGED <<handled, auth_url, response, attempt, verifier, state, code, tokens, authorization_code,
                   received_state, sock, thr, req, file, ticks, joinStart,
                   tampers, fileAtStart, expiry, fileRead, posts>>

Post(grant, c, v, resp) ==
    [grant |-> grant, code |-> c, code_verifier |-> v, resp |-> resp, at |-> now]

\* lines 245-251: _exchange_token with the authorization-code grant
Exchange ==
    /\ pc = "exchange"
    /\ \E resp \in Responses \cup {Silence} :
         LET out == ExchangeToken(resp, now)
         IN /\ posts' = Append(posts, Post("authorization_code", code, verifier, resp))
            /\ log' = Append(log, "post")
            /\ IF resp = Silence
               THEN \* urlopen(req) has no timeout (line 164): it never returns
                    /\ pc' = "blocked"
                    /\ ret' = ret
                    /\ tokens' = tokens
               ELSE IF out.how = "raise"
               THEN /\ Escape("login")
                    /\ tokens' = tokens
               ELSE /\ tokens' = out.val
                    /\ pc' = "check_tokens"
                    /\ ret' = ret
    /\ UNCHANGED <<handled, auth_url, response, attempt, verifier, state, code, received, authorization_code,
                   received_state, sock, thr, req, file, ticks, joinStart,
                   tampers, fileAtStart, expiry, fileRead>>

\* lines 253-255 with a retry: a failed exchange is sent again
CheckTokensRetry ==
    /\ pc = "check_tokens"
    /\ IF ~Truthy(tokens) \/ ~In("access_token", tokens)
       THEN /\ pc' = IF Len(posts) < 2 THEN "exchange" ELSE "idle"
            /\ ret' = IF Len(posts) < 2 THEN ret ELSE Ret("login", "return", JNull)
            /\ log' = Append(log, "exchange_failed")
       ELSE /\ pc' = "save"
            /\ ret' = ret
            /\ log' = Append(log, "exchanged")
    /\ UNCHANGED <<handled, auth_url, response, attempt, verifier, state, code, received, tokens, authorization_code,
                   received_state, sock, thr, req, file, ticks, joinStart,
                   tampers, fileAtStart, expiry, fileRead, posts>>

\* lines 253-255
CheckTokens ==
    /\ pc = "check_tokens"
    /\ IF ~Truthy(tokens) \/ ~In("access_token", tokens)
       THEN /\ ReturnToCaller("login", JNull)
            /\ log' = Append(log, "exchange_failed")
       ELSE /\ pc' = "save"
            /\ ret' = ret
            /\ log' = Append(log, "exchanged")
    /\ UNCHANGED <<handled, auth_url, response, attempt, verifier, state, code, received, tokens, authorization_code,
                   received_state, sock, thr, req, file, ticks, joinStart,
                   tampers, fileAtStart, expiry, fileRead, posts>>

\* line 257: save_tokens(tokens)
Save ==
    /\ pc = "save"
    /\ \E fs \in FsOutcomes, chmodOk \in BOOLEAN :
         LET out == SaveTokens(tokens, file, now, fs, chmodOk)
         IN /\ file' = out.file
            /\ tokens' = out.tokens
            /\ IF out.how = "raise"
               THEN /\ Escape("login")
                    /\ log' = log
               ELSE /\ pc' = "return"
                    /\ ret' = ret
                    /\ log' = Append(log, "saved")
    /\ UNCHANGED <<handled, auth_url, response, attempt, verifier, state, code, received, authorization_code,
                   received_state, sock, thr, req, ticks, joinStart, tampers,
                   fileAtStart, expiry, fileRead, posts>>

\* line 258: return tokens
Return ==
    /\ pc = "return"
    /\ ReturnToCaller("login", tokens)
    /\ log' = Append(log, "returned")
    /\ UNCHANGED <<handled, auth_url, response, attempt, verifier, state, code, received, tokens, authorization_code,
                   received_state, sock, thr, req, file, ticks, joinStart,
                   tampers, fileAtStart, expiry, fileRead, posts>>

(***************************************************************************)
(* The server thread of attempt a: server.handle_request() serves one      *)
(* request with _OAuthCallbackHandler.do_GET.  It is a daemon thread: it   *)
(* ends with the process.                                                  *)
(***************************************************************************)
\* the process has not died of an uncaught exception
Alive == pc # "crashed"

\* handle_request accepts a connection on the listening socket and reads
\* the request; accept() on a closed socket fails and nothing is served
Accept(a) ==
    /\ Alive
    /\ thr[a] = "waiting"
    /\ sock[a] = "open"
    /\ \E r \in Requests(a) :
         /\ req' = [req EXCEPT ![a] = r]
         /\ handled' = [handled EXCEPT ![a] = r]
    /\ thr' = [thr EXCEPT ![a] = "accepted"]
    /\ UNCHANGED <<auth_url, response, pc, attempt, verifier, state, code, received, tokens,
                   authorization_code, received_state, sock, file, ticks,
                   joinStart, tampers, ret, log, fileAtStart, expiry, fileRead, posts>>

\* do_GET capturing the parameters whatever the path
WriteCodeAnyPath(a) ==
    /\ Alive
    /\ thr[a] = "accepted"
    /\ authorization_code' = req[a].code
    /\ thr' = [thr EXCEPT ![a] = "wrote_code"]
    /\ UNCHANGED <<handled, auth_url, response, pc, attempt, verifier, state, code, received, tokens, received_state,
                   sock, req, file, ticks, joinStart, tampers, ret, log,
                   fileAtStart, expiry, fileRead, posts>>

\* lines 69-71: parse_qs drops a blank code=, so a missing or blank
\* parameter is captured as None
WriteCode(a) ==
    /\ Alive
    /\ thr[a] = "accepted"
    /\ req[a].path = CALLBACK_PATH
    /\ authorization_code' = req[a].code
    /\ thr' = [thr EXCEPT ![a] = "wrote_code"]
    /\ UNCHANGED <<handled, auth_url, response, pc, attempt, verifier, state, code, received, tokens, received_state,
                   sock, req, file, ticks, joinStart, tampers, ret, log,
                   fileAtStart, expiry, fileRead, posts>>

\* line 72
WriteState(a) ==
    /\ Alive
    /\ thr[a] = "wrote_code"
    /\ received_state' = req[a].state
    /\ thr' = [thr EXCEPT ![a] = "wrote_state"]
    /\ UNCHANGED <<handled, auth_url, response, pc, attempt, verifier, state, code, received, tokens,
                   authorization_code, sock, req, file, ticks, joinStart,
                   tampers, ret, log, fileAtStart, expiry, fileRead, posts>>

\* the thread running serve_forever in place of handle_request: after the
\* answer it waits for the next request
RespondAndServeOn(a) ==
    /\ Alive
    /\ \/ thr[a] = "wrote_state"
       \/ thr[a] = "accepted" /\ req[a].path # CALLBACK_PATH
    /\ thr' = [thr EXCEPT ![a] = "waiting"]
    /\ response' = Reply(a, req[a].path,
                         IF thr[a] = "wrote_state" THEN 200 ELSE 404)
    /\ req' = [req EXCEPT ![a] = NoRequest]
    /\ UNCHANGED <<handled, auth_url, pc, attempt, verifier, state, code, received, tokens,
                   authorization_code, received_state, sock, file, ticks,
                   joinStart, tampers, ret, log, fileAtStart, expiry, fileRead, posts>>

\* lines 75-85 (200 and the page) or 87-88 (404); handle_request returns
\* and the thread ends
Respond(a) ==
    /\ Alive
    /\ \/ thr[a] = "wrote_state"
       \/ thr[a] = "accepted" /\ req[a].path # CALLBACK_PATH
    /\ thr' = [thr EXCEPT ![a] = "done"]
    /\ response' = Reply(a, req[a].path,
                             IF thr[a] = "wrote_state" THEN 200 ELSE 404)
    /\ req' = [req EXCEPT ![a] = NoRequest]
    /\ UNCHANGED <<handled, auth_url, pc, attempt, verifier, state, code, received, tokens,
                   authorization_code, received_state, sock, file, ticks,
                   joinStart, tampers, ret, log, fileAtStart, expiry, fileRead, posts>>

(***************************************************************************)
(* load_tokens, called by the process that holds a stored credential.      *)
(***************************************************************************)
\* lines 114-115: TOKEN_FILE.exists()
LoadExists ==
    /\ pc = "idle"
    /\ IF ~file.exists
       THEN ReturnToCaller("load", JNull)
       ELSE /\ pc' = "load_open"
            /\ ret' = NoRet
    /\ log' = <<>>
    /\ fileAtStart' = file
    /\ fileRead' = file
    /\ expiry' = "none"
    /\ posts' = <<>>
    /\ UNCHANGED <<handled, auth_url, response, attempt, verifier, state, code, received, tokens,
                   authorization_code, received_state, sock, thr, req, file,
                   ticks, joinStart, tampers>>

\* lines 116-120: open, json.load, except (json.JSONDecodeError, IOError)
LoadRead ==
    /\ pc = "load_open"
    /\ LET out == LoadOpen(file)
       IN IF out.how = "raise"
          THEN Escape("load")
          ELSE ReturnToCaller("load", out.val)
    /\ fileRead' = file
    /\ UNCHANGED <<handled, auth_url, response, attempt, verifier, state, code, received, tokens,
                   authorization_code, received_state, sock, thr, req, file,
                   ticks, joinStart, tampers, log, fileAtStart, expiry, posts>>

(***************************************************************************)
(* refresh_if_needed(tokens), called with the record the caller holds: the *)
(* one its last call (load_tokens, save_tokens, refresh_if_needed,         *)
(* run_oauth_login) gave it.                                               *)
(***************************************************************************)
\* lines 125-134: the early returns, or on to the exchange
RefreshBegin ==
    /\ pc = "idle"
    /\ ret.op # "none"
    /\ ret.how = "return"
    /\ ret.val # JNull
    /\ tokens' = ret.val
    /\ LET decision == RefreshDecision(ret.val, now)
       IN CASE decision = "raise" ->
                 /\ Escape("refresh")
                 /\ log' = <<>>
            [] decision \in {"valid", "no_refresh_token"} ->
                 /\ ReturnToCaller("refresh", ret.val)
                 /\ log' = <<decision>>
            [] OTHER ->
                 /\ pc' = "refresh_exchange"
                 /\ ret' = NoRet
                 /\ log' = <<"refreshing">>
    /\ fileAtStart' = file
    /\ expiry' = "none"
    /\ posts' = <<>>
    /\ UNCHANGED <<handled, auth_url, response, attempt, verifier, state, code, received, authorization_code,
                   received_state, sock, thr, req, file, ticks, joinStart,
                   tampers, fileRead>>

\* lines 135-151: _exchange_token with the refresh grant, the refresh token
\* carried forward, save_tokens, and the return
RefreshExchange ==
    /\ pc = "refresh_exchange"
    /\ \E resp \in RefreshResponses \cup {Silence},
          fs \in FsOutcomes, chmodOk \in BOOLEAN :
         LET out == RefreshResult(tokens, resp, file, now, fs, chmodOk)
         IN /\ posts' = Append(posts, Post("refresh_token", None, None, resp))
            /\ IF resp = Silence
               THEN \* urlopen(req) has no timeout (line 164): it never returns
                    /\ pc' = "blocked"
                    /\ ret' = ret
                    /\ log' = Append(log, "post")
                    /\ file' = file
               ELSE /\ log' = log \o <<"post", out.log>>
                    /\ file' = out.file
                    /\ ReturnToCaller("refresh", out.val)
    /\ UNCHANGED <<handled, auth_url, response, attempt, verifier, state, code, received, tokens,
                   authorization_code, received_state, sock, thr, req, ticks,
                   joinStart, tampers, fileAtStart, expiry, fileRead>>

(***************************************************************************)
(* The environment: the clock, and whoever else touches the token file.    *)
(***************************************************************************)
\* time passes while the caller waits: for the callback (line 229) and for
\* the token endpoint's answer (line 164)
Tick ==
    /\ pc \in {"join", "exchange", "refresh_exchange"}
    /\ ticks < MaxTicks
    /\ ticks' = ticks + 1
    /\ UNCHANGED <<handled, auth_url, response, pc, attempt, verifier, state, code, received, tokens,
                   authorization_code, received_state, sock, thr, req, file,
                   joinStart, tampers, ret, log, fileAtStart, expiry, fileRead, posts>>

\* texts another writer can leave: {}, null, a number, [], a record
\* without access_token, a full record
ForeignTexts ==
    {<<LBrace, RBrace>>, <<NullLex>>, <<NumLex>>, <<LBrack, RBrack>>,
     <<LBrace, Pair("refresh_token", PyStr("RT0")), RBrace>>,
     <<LBrace, Pair("access_token", PyStr("AT0")), RBrace>>}

\* removed, made unreadable, truncated, overwritten with bytes that are not
\* UTF-8, or overwritten with other JSON
TamperedFiles(f) ==
    {Absent, [FileOf(<<>>) EXCEPT !.utf8 = FALSE]}
      \cup {FileOf(t) : t \in ForeignTexts}
      \cup (IF f.exists
            THEN {[f EXCEPT !.readable = FALSE]}
                   \cup {[f EXCEPT !.text = SubSeq(f.text, 1, k)] :
                            k \in {0, Len(f.text) - 1} \cap Nat}
            ELSE {})

\* concurrent writers during a login are out of scope (spec section 5): the
\* file changes between calls, or between the existence check and the open
Tamper ==
    /\ pc \in {"idle", "load_open"}
    /\ tampers < MaxTamper
    /\ \E f \in TamperedFiles(file) \ {file} : file' = f
    /\ tampers' = tampers + 1
    /\ UNCHANGED <<handled, auth_url, response, pc, attempt, verifier, state, code, received, tokens,
                   authorization_code, received_state, sock, thr, req, ticks,
                   joinStart, ret, log, fileAtStart, expiry, fileRead, posts>>

Next ==
    \/ LoginBegin
    \/ ResetCode
    \/ ResetState
    \/ Bind
    \/ StartThread
    \/ OpenBrowser
    \/ Join
    \/ ServerClose
    \/ ReadCode
    \/ ReadState
    \/ Exchange
    \/ CheckTokens
    \/ Save
    \/ Return
    \/ \E a \in Attempts : Accept(a)
    \/ \E a \in Attempts : WriteCode(a)
    \/ \E a \in Attempts : WriteState(a)
    \/ \E a \in Attempts : Respond(a)
    \/ Tick

Spec == Init /\ [][Next]_vars

(***************************************************************************)
(* The token store used on its own: save_tokens and load_tokens called by  *)
(* the holder of a credential, with another party changing the file.       *)
(***************************************************************************)
\* records a caller hands to save_tokens: a bare token, a full record, and
\* a record read back earlier that already carries saved_at
SaveInputs ==
    {JObj([k \in {"access_token"} |-> PyStr("AT1")]),
     JObj([k \in {"access_token", "refresh_token", "expires_at"} |->
             CASE k = "access_token" -> PyStr("AT1")
               [] k = "refresh_token" -> PyStr("RT1")
               [] OTHER -> PyInt(3600)]),
     JObj(PriorRecord)}

\* save_tokens(record), lines 99-109
StoreSave ==
    /\ pc = "idle"
    /\ \E rec \in SaveInputs, fs \in FsOutcomes, chmodOk \in BOOLEAN :
         LET out == SaveTokens(rec, file, now, fs, chmodOk)
         IN /\ file' = out.file
            /\ tokens' = rec
            /\ IF out.how = "raise"
               THEN Escape("save")
               ELSE ReturnToCaller("save", out.tokens)
            /\ log' = IF ChmodReached(rec, file, fs)
                      THEN <<IF chmodOk THEN "chmod_accepted" ELSE "chmod_rejected">>
                      ELSE <<>>
    /\ fileAtStart' = file
    /\ expiry' = "none"
    /\ fileRead' = fileRead
    /\ posts' = <<>>
    /\ UNCHANGED <<handled, auth_url, response, attempt, verifier, state, code, received, authorization_code,
                   received_state, sock, thr, req, ticks, joinStart, tampers>>

\* time passes between two calls
Wait ==
    /\ pc = "idle"
    /\ ticks < MaxTicks
    /\ ticks' = ticks + 1
    /\ UNCHANGED <<handled, auth_url, response, pc, attempt, verifier, state, code, received, tokens,
                   authorization_code, received_state, sock, thr, req, file,
                   joinStart, tampers, ret, log, fileAtStart, expiry, fileRead, posts>>

NextStore ==
    \/ StoreSave
    \/ LoadExists
    \/ LoadRead
    \/ Tamper
    \/ Wait

SpecStore == Init /\ [][NextStore]_vars

(***************************************************************************)
(* The holder of a stored credential: it loads the record and refreshes it *)
(* when needed, again and again, while time passes.                        *)
(***************************************************************************)
\* records an earlier run of the program, or another program, stored: with a
\* refresh token and an expiry 100, 300, 400 or 600 seconds after the
\* process started, with an expiry that is no number, and expiring ones
\* whose refresh token is missing, empty or null
StoredRecord(rt, exp) ==
    [k \in {"access_token", "refresh_token", "expires_at"} |->
        CASE k = "access_token" -> PyStr("AT0")
          [] k = "refresh_token" -> rt
          [] OTHER -> exp]
StoredRecords ==
    {StoredRecord(PyStr("RT0"), e) :
        e \in {PyInt(100), PyInt(300), PyInt(400), PyInt(600), PyStr("soon")}}
      \cup {StoredRecord(rt, PyInt(100)) : rt \in {PyStr(""), PyNone}}
      \cup {[k \in {"access_token", "expires_at"} |->
                IF k = "access_token" THEN PyStr("AT0") ELSE PyInt(100)]}

\* the token file this process finds: any of the above, or what another
\* writer left
StoredFiles ==
    InitialFiles
      \cup {FileOf(t) : t \in ForeignTexts}
      \cup {FileOf(Dump(r)) : r \in StoredRecords}

InitRefresh ==
    /\ pc = "idle"
    /\ attempt = 0
    /\ verifier = None
    /\ state = None
    /\ code = None
    /\ received = None
    /\ tokens = JNull
    /\ authorization_code = None
    /\ received_state = None
    /\ sock = [a \in Attempts |-> "none"]
    /\ thr = [a \in Attempts |-> "none"]
    /\ req = [a \in Attempts |-> NoRequest]
    /\ file \in StoredFiles
    /\ ticks = 0
    /\ joinStart = 0
    /\ tampers = 0
    /\ ret = NoRet
    /\ log = <<>>
    /\ fileAtStart = file
    /\ expiry = "none"
    /\ fileRead = file
    /\ posts = <<>>
    /\ auth_url = NoUrl
    /\ response = NoReply
    /\ handled = [a \in Attempts |-> NoRequest]

NextRefresh ==
    \/ LoadExists
    \/ LoadRead
    \/ RefreshBegin
    \/ RefreshExchange
    \/ Wait
    \/ Tick

SpecRefresh == InitRefresh /\ [][NextRefresh]_vars

(***************************************************************************)
(* One run of the program: select_engine reaches run_oauth_login at most   *)
(* once (src/main.py:329-330); the holder of the credential it returned    *)
(* refreshes it when needed.                                               *)
(***************************************************************************)
SessionLoginBegin == attempt = 0 /\ LoginBegin

NextSession ==
    \/ SessionLoginBegin
    \/ ResetCode
    \/ ResetState
    \/ Bind
    \/ StartThread
    \/ OpenBrowser
    \/ Join
    \/ ServerClose
    \/ ReadCode
    \/ ReadState
    \/ Exchange
    \/ CheckTokens
    \/ Save
    \/ Return
    \/ \E a \in Attempts : Accept(a)
    \/ \E a \in Attempts : WriteCode(a)
    \/ \E a \in Attempts : WriteState(a)
    \/ \E a \in Attempts : Respond(a)
    \/ RefreshBegin
    \/ RefreshExchange
    \/ Tick

SpecSession == Init /\ [][NextSession]_vars

\* the calling thread keeps running: whatever statement of run_oauth_login or
\* refresh_if_needed it is at is executed when it can be.  (Nothing is
\* assumed of the server thread, which may stall on a connection that sends
\* no request, nor of the requests that arrive.)
CallerStep ==
    \/ ResetCode
    \/ ResetState
    \/ Bind
    \/ StartThread
    \/ OpenBrowser
    \/ Join
    \/ ServerClose
    \/ ReadCode
    \/ ReadState
    \/ Exchange
    \/ CheckTokens
    \/ Save
    \/ Return
    \/ RefreshExchange

\* the same run, with the calling thread running and time passing
SpecSessionFair ==
    /\ Init
    /\ [][NextSession]_vars
    /\ WF_vars(CallerStep)
    /\ WF_vars(Tick)

(***************************************************************************)
(* Properties.                                                             *)
(***************************************************************************)
\* the current call has done e
Has(e) == \E i \in DOMAIN log : log[i] = e
Before(e1, e2) ==
    \E i, j \in DOMAIN log : i < j /\ log[i] = e1 /\ log[j] = e2
\* run_oauth_login has returned None to its caller
ReturnedNone == pc = "idle" /\ ret = Ret("login", "return", JNull)
\* run_oauth_login has returned a record to its caller
ReturnedRecord ==
    pc = "idle" /\ ret.op = "login" /\ ret.how = "return" /\ ret.val # JNull
\* run_oauth_login is over, one way or the other
LoginEnded == ret.op = "login" /\ pc \in {"idle", "crashed"}
LastPost == posts[Len(posts)]

\* C1: once the attempt has read a received state that differs from the
\* state it generated, no POST was or is made, the token file is as it was
\* when the attempt began, and the attempt has returned None.
C1_StateMismatchNeverExchanges ==
    ((Has("no_code") \/ Has("code")) /\ received # state)
        => (posts = <<>> /\ file = fileAtStart /\ ReturnedNone)

C1_Witness ==
    /\ Has("state_mismatch")
    /\ code # None
    /\ received # state
    /\ ReturnedNone

\* C2: the browser is opened only after the listener was bound (the socket
\* of the attempt exists); when the bind fails the attempt has returned
\* None having done nothing else: no thread, no browser, no POST.
C2_BrowserOnlyAfterBind ==
    /\ Has("browser") => (Before("bound", "browser") /\ sock[attempt] # "none")
    /\ Has("port_in_use") =>
         /\ log = <<"port_in_use">>
         /\ ReturnedNone
         /\ sock[attempt] = "none"
         /\ thr[attempt] = "none"
         /\ posts = <<>>

C2_Witness ==
    /\ Has("port_in_use")
    /\ ReturnedNone
    /\ attempt = 1

\* C3: when the 120-second wait expires and no request has reached the
\* listener, the attempt makes no POST, leaves the token file alone, never
\* reaches the exchange and returns None with the listening socket closed.
C3_TimeoutAlwaysFails ==
    expiry = "no_request" =>
        /\ posts = <<>>
        /\ file = fileAtStart
        /\ pc \notin {"exchange", "check_tokens", "save", "return"}
        /\ LoginEnded => (ReturnedNone /\ sock[attempt] = "closed")

\* C4: a listening socket is open only while the attempt that bound it is
\* still running: it is closed when run_oauth_login returns or raises.
C4_SocketClosedOnEveryExit ==
    \A a \in Attempts :
        sock[a] = "open" => (a = attempt /\ pc \notin {"idle", "crashed"})

\* C5: an attempt that failed to bind, or that got as far as the end of the
\* wait (timeout, state mismatch, token endpoint errors, a body that is no
\* JSON object, a failed write of the token file), ends by returning, never
\* by an exception that reaches the caller.
C5_NoExceptionEscapesLogin ==
    (LoginEnded /\ (Has("port_in_use") \/ Has("closed")))
        => (pc = "idle" /\ ret.how = "return")

\* the answer is an HTTP error status, or a JSON object without access_token
NoAccessToken(r) ==
    \/ r.status = "non2xx"
    \/ /\ r.status = "2xx"
       /\ r.valid
       /\ r.body.kind = "object"
       /\ "access_token" \notin DOMAIN r.body.obj

\* C6: when the token endpoint answered with an error status or with an
\* object that has no access_token, the attempt has returned None and the
\* token file is as it was when the attempt began.
C6_FailedExchangeReturnsNone ==
    (LoginEnded /\ posts # <<>> /\ NoAccessToken(LastPost.resp))
        => (ReturnedNone /\ file = fileAtStart)

\* the steps of a successful attempt, in order (the wait ends either way)
SuccessLogs ==
    {<<"bound", "thread", "browser", j, "closed", "code", "state_ok",
       "post", "exchanged", "saved", "returned">> : j \in {"joined", "timeout"}}

\* C7: when run_oauth_login has returned a record, the attempt went through
\* bind, browser, code received, state validated, exchange with an
\* access_token and save, in this order; and load_tokens, called now, returns
\* a record equal to the returned one.
C7_SuccessIsPersisted ==
    ReturnedRecord =>
        /\ log \in SuccessLogs
        /\ received = state
        /\ In("access_token", ret.val)
        /\ LoadTokens(file) = Returned(ret.val)

C7_Witness ==
    /\ ReturnedRecord
    /\ ret.val.kind = "object"
    /\ "saved_at" \in DOMAIN ret.val.obj

\* C8: in the record _exchange_token returned, expires_at, when present, is
\* the time of the exchange plus the answer's expires_in (so an answer
\* without expires_in yields a record without expires_at).
C8_ExpiresAtAlwaysDerived ==
    (pc = "check_tokens" /\ tokens.kind = "object"
        /\ "expires_at" \in DOMAIN tokens.obj)
        => /\ In("expires_in", LastPost.resp.body)
           /\ tokens.obj["expires_at"]
                = PyInt(LastPost.at + LastPost.resp.body.obj["expires_in"].n)

\* C9: what load_tokens returns is None or a record with an access_token.
C9_LoadedRecordHasAccessToken ==
    (ret.op = "load" /\ ret.how = "return" /\ ret.val # JNull)
        => (ret.val.kind = "object" /\ "access_token" \in DOMAIN ret.val.obj)

\* the file is absent, unreadable, not UTF-8 or not JSON (truncated, empty)
Unusable(f) == ~f.exists \/ ~f.readable \/ ~f.utf8 \/ ~Parses(f.text)

\* C10: load_tokens, finding the file absent, unreadable, removed since the
\* existence check, truncated or not valid UTF-8 JSON, returns None and
\* does not raise.
C10_LoadNeverRaises ==
    (ret.op = "load" /\ pc \in {"idle", "crashed"} /\ Unusable(fileRead))
        => (pc = "idle" /\ ret = Ret("load", "return", JNull))

\* this step is a call of save_tokens that returns (the steps that leave
\* the caller idle with a save as its last call, and are neither the clock's
\* nor another writer's)
SaveReturns ==
    /\ pc = "idle"
    /\ pc' = "idle"
    /\ ret'.op = "save"
    /\ ret'.how = "return"
    /\ tampers' = tampers
    /\ ticks' = ticks

\* C11: a save_tokens(record) that returns leaves a file from which
\* load_tokens reads the record with saved_at set to the time of the save
\* (whatever saved_at the record had); and a load_tokens that follows the
\* latest save, with no other write to the file, has returned exactly that:
\* the input of the latest save, stamped with a time up to now.
C11_SaveLoadRoundTrip ==
    /\ [][SaveReturns
            => LoadTokens(file')
                 = Returned(JObj(SetKey(tokens'.obj, "saved_at", PyInt(now'))))]_vars
    /\ [][(ret'.op = "load" /\ pc' = "idle" /\ tokens' # JNull /\ tampers' = 0)
            => \E t \in 0..ticks :
                 ret' = Ret("load", "return",
                            JObj(SetKey(tokens.obj, "saved_at", PyInt(t * TickLen))))]_vars

\* a record that carried saved_at = 0 was saved at time 120 and loaded
C11_Witness ==
    /\ ret.op = "load"
    /\ pc = "idle"
    /\ tampers = 0
    /\ tokens = JObj(PriorRecord)
    /\ ret.val.kind = "object"
    /\ ret.val.obj = SetKey(PriorRecord, "saved_at", PyInt(TickLen))

\* this step is a call of save_tokens, however it ends
SaveEnds ==
    /\ pc = "idle"
    /\ ret'.op = "save"
    /\ tampers' = tampers
    /\ ticks' = ticks

\* C21: a save_tokens whose chmod was accepted has returned leaving the
\* written file restricted to its owner; one whose chmod was rejected has
\* returned all the same, raising nothing, with the whole stamped record in
\* the file.
C21_ChmodIsBestEffort ==
    [][(SaveEnds /\ log' # <<>>) =>
        /\ pc' = "idle"
        /\ ret'.how = "return"
        /\ file'.exists
        /\ file'.text = Dump(SetKey(tokens'.obj, "saved_at", PyInt(now')))
        /\ log' = <<"chmod_accepted">> => file'.ownerOnly]_vars

\* a save over no file, whose chmod was rejected, has returned with the
\* record written to a file that is not restricted
C21_Witness ==
    /\ pc = "idle"
    /\ ret.op = "save"
    /\ ret.how = "return"
    /\ log = <<"chmod_rejected">>
    /\ tampers = 0
    /\ ~file.ownerOnly
    /\ LoadTokens(file) = Returned(ret.val)

\* C22: in a run that logs in and refreshes, the record held by the token
\* file (whenever the file holds JSON) has an access_token: a refresh whose
\* answer has none leaves the stored record in place.
C22_StoredRecordHasAccessToken ==
    (file.exists /\ Parses(file.text)) => In("access_token", Parse(file.text))

\* the code/state pairs a request to /auth/callback can deliver, and the
\* pair the attempt starts from (lines 207-208)
DeliveredPairs ==
    {<<r.code, r.state>> :
        r \in {q \in UNION {Requests(a) : a \in Attempts} : q.path = CALLBACK_PATH}}
      \cup {<<None, None>>}

\* C23: the code an attempt sends to the token endpoint is the one that the
\* request to its own listener carried (together with the attempt's state),
\* and the code and state the attempt has read are the two values of one
\* request (or the two reset values), never one value each from two writes.
C23_CodeAndStateFromOneRequest ==
    /\ \A i \in DOMAIN posts :
          posts[i].grant = "authorization_code"
            => posts[i].code = Nonce("code", attempt)
    /\ (Has("no_code") \/ Has("code")) => <<code, received>> \in DeliveredPairs

\* C24: a listener thread that has served its one request stays ended and
\* holds no request; a wait whose thread has ended stops without the clock
\* advancing and goes on to close the socket; an attempt whose wait ended
\* that way makes no POST and returns None when the served request was for
\* another path or carried no code.
C24_OneRequestEndsTheWait ==
    [][/\ \A a \in Attempts :
             thr[a] = "done" => (thr'[a] = "done" /\ req'[a] = NoRequest)
       /\ (pc = "join" /\ thr[attempt] = "done" /\ pc' # pc)
             => /\ pc' = "server_close"
                /\ ticks' = ticks
                /\ log' = Append(log, "joined")
       /\ (/\ Has("joined")
           /\ \/ handled[attempt].path # CALLBACK_PATH
              \/ handled[attempt].code = None)'
             => (~Has("post") /\ (LoginEnded => ReturnedNone))']_vars

\* how often the current call has done e
Count(e) == Cardinality({i \in DOMAIN log : log[i] = e})

\* the exchange of POST p gave run_oauth_login nothing it accepts:
\* _exchange_token raised, or returned None or a value without access_token
LoginExchangeFailed(p) ==
    LET out == ExchangeToken(p.resp, p.at)
    IN /\ p.resp # Silence
       /\ out.how = "raise" \/ ~Truthy(out.val) \/ ~In("access_token", out.val)

\* C16: within one invocation the listener is bound at most once, the
\* browser is opened at most once and at most one POST is sent, by
\* run_oauth_login as by refresh_if_needed; after an exchange that
\* was answered and failed run_oauth_login does nothing but end (no save, no
\* further POST), and after any answer refresh_if_needed has returned.
C16_NoRetry ==
    /\ Count("bound") + Count("port_in_use") <= 1
    /\ Count("thread") <= 1
    /\ Count("browser") <= 1
    /\ Count("post") <= 1
    /\ Len(posts) <= 1
    /\ (posts # <<>> /\ LastPost.grant = "authorization_code"
          /\ LoginExchangeFailed(LastPost))
         => /\ pc \in {"check_tokens", "idle", "crashed"}
            /\ file = fileAtStart
            /\ pc = "idle" => ReturnedNone
    /\ (posts # <<>> /\ LastPost.grant = "refresh_token"
          /\ LastPost.resp # Silence)
         => (pc = "idle" /\ ret.op = "refresh")

\* a login whose one exchange failed has returned None
C16_Witness ==
    /\ ReturnedNone
    /\ Has("exchange_failed")
    /\ Len(posts) = 1
    /\ Count("bound") = 1
    /\ Count("browser") = 1

\* the server thread of listener a takes this step
ThreadStep(a) == thr'[a] # thr[a] /\ thr[a] # "none"

\* C17: a listener serves at most one request: once its thread has accepted
\* a request it never waits for another, the request it serves is never
\* replaced by a later one, and what it writes to the captured code and
\* state are the values of that one request.
C17_ListenerCapturesOneRequest ==
    [][\A a \in Attempts :
        /\ thr[a] \notin {"none", "waiting"} => thr'[a] # "waiting"
        /\ req'[a] # req[a] =>
              \/ thr[a] = "waiting" /\ req[a] = NoRequest
              \/ req'[a] = NoRequest /\ thr'[a] = "done"
        /\ (ThreadStep(a) /\ authorization_code' # authorization_code)
              => authorization_code' = req[a].code
        /\ (ThreadStep(a) /\ received_state' # received_state)
              => received_state' = req[a].state]_vars

\* the listener has served the provider's redirect and its socket is still
\* open (a second connection may be waiting on it)
C17_Witness ==
    /\ attempt = 1
    /\ thr[1] = "done"
    /\ sock[1] = "open"
    /\ authorization_code = Nonce("code", 1)
    /\ received_state = GenerateState(1)
    /\ response.status = 200

\* C18: a request is answered 200 when its path is /auth/callback and 404
\* otherwise; a server thread that serves a request for another path writes
\* neither the captured code nor the captured state.
C18_OnlyCallbackPathIsCaptured ==
    /\ [][response' # NoReply =>
             /\ response'.status \in {200, 404}
             /\ response'.status = 200 <=> response'.path = CALLBACK_PATH]_vars
    /\ [][\A a \in Attempts :
            (ThreadStep(a) /\ req[a] # NoRequest /\ req[a].path # CALLBACK_PATH)
              => /\ authorization_code' = authorization_code
                 /\ received_state' = received_state
                 /\ response'.status = 404]_vars

\* a request for another path, carrying a code and the attempt's state, was
\* answered 404 and nothing was captured
C18_Witness ==
    /\ response = Reply(attempt, "/favicon.ico", 404)
    /\ thr[attempt] = "done"
    /\ authorization_code = None
    /\ received_state = None

\* C19: the authorization URL of the attempt carries code_challenge =
\* unpadded URL-safe base64 of SHA-256 of the attempt's verifier, with method
\* S256, and the code_verifier of the attempt's authorization-code POST is
\* that same verifier, generated when the attempt began.
C19_VerifierMatchesChallenge ==
    attempt >= 1 =>
        /\ verifier = GenerateVerifier(attempt)
        /\ auth_url.code_challenge
              = RstripPadding(UrlsafeB64encode(Sha256(verifier)))
        /\ auth_url.code_challenge.padding = 0
        /\ auth_url.code_challenge_method = "S256"
        /\ auth_url.state = state
        /\ \A i \in DOMAIN posts :
              posts[i].grant = "authorization_code"
                => posts[i].code_verifier = verifier

\* the second attempt of a process has sent its POST
C19_Witness ==
    /\ attempt = 2
    /\ Has("browser")
    /\ posts # <<>>
    /\ LastPost.grant = "authorization_code"
    /\ LastPost.code_verifier = GenerateVerifier(2)

\* an invocation of run_oauth_login or refresh_if_needed is under way
InCall == pc \notin {"idle", "crashed"}

\* C20: every invocation of run_oauth_login and of refresh_if_needed comes
\* to an end (it returns or raises), whatever arrives at the listener and
\* whatever the token endpoint does, also when it never answers.
C20_EveryCallTerminates == InCall ~> ~InCall

\* the record is a dict whose expires_at, when present, is a number
WellFormed(rec) ==
    rec.kind = "object" /\ Get(rec.obj, "expires_at", PyInt(0)).ty = "int"
\* now + 300 < expires_at, at time t
StillValid(rec, t) ==
    /\ rec.kind = "object"
    /\ "expires_at" \in DOMAIN rec.obj
    /\ rec.obj["expires_at"].ty = "int"
    /\ t + 300 < rec.obj["expires_at"].n
\* the record has a refresh_token that is neither null nor empty
HasRefreshToken(rec) ==
    /\ rec.kind = "object"
    /\ "refresh_token" \in DOMAIN rec.obj
    /\ rec.obj["refresh_token"] \notin {PyNone, PyStr("")}
\* this step of refresh_if_needed returns the caller's record as it is,
\* having sent nothing and written nothing
ReturnsUnchanged ==
    /\ pc' = "idle"
    /\ ret' = Ret("refresh", "return", ret.val)
    /\ posts' = <<>>
    /\ file' = file

\* C12 as stated: refresh_if_needed returns the record unchanged, with no
\* POST and no write, exactly when now + 300 < expires_at; otherwise (a
\* record expiring in 100 or in exactly 300 seconds) it goes on to refresh.
C12_ReturnsUnchangedExactlyWhenValid ==
    [][RefreshBegin =>
        /\ ReturnsUnchanged <=> StillValid(ret.val, now)
        /\ (WellFormed(ret.val) /\ ~StillValid(ret.val, now))
              => pc' = "refresh_exchange"]_vars

\* C12, amended: for a record that has a refresh token, refresh_if_needed
\* returns the record unchanged, with no POST and no write, exactly when
\* now + 300 < expires_at; otherwise (also at expires_at = now + 300) it goes
\* on to the exchange, which sends one POST.
C12_ValidRecordIsNotRefreshed ==
    /\ [][(RefreshBegin /\ HasRefreshToken(ret.val)) =>
            /\ ReturnsUnchanged <=> StillValid(ret.val, now)
            /\ (WellFormed(ret.val) /\ ~StillValid(ret.val, now))
                  => pc' = "refresh_exchange"]_vars
    /\ [][RefreshExchange => (posts = <<>> /\ Len(posts') = 1)]_vars

\* a record expiring in exactly 300 seconds is on its way to the exchange
C12_Witness ==
    /\ pc = "refresh_exchange"
    /\ ticks = 0
    /\ HasRefreshToken(tokens)
    /\ Get(tokens.obj, "expires_at", PyNone) = PyInt(300)

\* C13: for a record within 300 seconds of its expiry or past it, whose
\* refresh_token is absent, null or empty, refresh_if_needed returns the
\* same record, sends no POST and does not write the token file.
C13_NoRefreshTokenReturnsUnchanged ==
    [][(RefreshBegin /\ WellFormed(ret.val) /\ ~StillValid(ret.val, now)
          /\ ~HasRefreshToken(ret.val))
        => ReturnsUnchanged]_vars

C13_Witness ==
    /\ pc = "idle"
    /\ ret.op = "refresh"
    /\ log = <<"no_refresh_token">>
    /\ Get(tokens.obj, "refresh_token", PyNone) = PyStr("")
    /\ ~StillValid(tokens, now)
    /\ ret.val = tokens

\* C14: when a refresh succeeded, the record returned carries the answer's
\* refresh_token when the answer has one and the prior record's otherwise,
\* and it is the record the token file now holds.
C14_RefreshTokenCarriedForward ==
    [][(RefreshExchange /\ log'[Len(log')] = "refreshed") =>
        LET body == posts'[Len(posts')].resp.body.obj
        IN /\ "refresh_token" \in DOMAIN ret'.val.obj
           /\ ret'.val.obj["refresh_token"]
                 = (IF "refresh_token" \in DOMAIN body
                    THEN body["refresh_token"]
                    ELSE tokens.obj["refresh_token"])
           /\ LoadTokens(file') = Returned(ret'.val)]_vars

C14_Witness ==
    /\ pc = "idle"
    /\ ret.op = "refresh"
    /\ Has("refreshed")
    /\ "refresh_token" \notin DOMAIN LastPost.resp.body.obj
    /\ tokens.obj["refresh_token"] = PyStr("RT0")
    /\ ret.val.obj["refresh_token"] = PyStr("RT0")
    /\ LoadTokens(file) = Returned(ret.val)

\* C15: refresh_if_needed does not raise, whatever record load_tokens gave;
\* and unless the refresh succeeded it returns the record it was given and
\* leaves the token file as it was.
C15_RefreshNeverRaises ==
    [][(RefreshBegin \/ RefreshExchange) =>
        /\ pc' # "crashed"
        /\ (pc' = "idle" /\ log'[Len(log')] # "refreshed")
              => (ret' = Ret("refresh", "return", tokens') /\ file' = file)]_vars

\* C25: when a refresh succeeded, the record returned and the record the
\* token file holds both carry a refresh_token that is a non-empty string.
C25_RefreshKeepsUsableRefreshToken ==
    (pc = "idle" /\ ret.op = "refresh" /\ Has("refreshed")) =>
        /\ HasRefreshToken(ret.val)
        /\ Get(ret.val.obj, "refresh_token", PyNone).ty = "str"
        /\ LoadTokens(file) = Returned(ret.val)

TypeOK ==
    /\ pc \in {"idle", "reset_code", "reset_state", "bind", "start_thread",
               "open_browser", "join", "server_close", "read_code",
               "read_state", "exchange", "check_tokens", "save", "return",
               "load_open", "refresh_exchange", "blocked", "crashed"}
    /\ attempt \in 0..MaxAttempts
    /\ ticks \in 0..MaxTicks

====
